---- MODULE Spec2Model ----
(***************************************************************************)
(* The FAQ responder of the nonprofit platform: the keyword matcher and    *)
(* generative fallback of AI_app.py (get_chatbot_answer,                   *)
(* generate_ai_response, load_ai_model), the simpler matcher of app.py,    *)
(* and the Streamlit script run (sidebar, chatbot tab, upload tab, charts  *)
(* tab) that surrounds them.                                               *)
(*                                                                         *)
(* A Python str is a sequence of one-character strings.  A formatted reply *)
(* (an f-string) is a sequence of chunks: a literal part is one chunk, an  *)
(* interpolated str contributes its characters.                            *)
(***************************************************************************)
EXTENDS Integers, Sequences, FiniteSets, TLC

\* ------------------------------------------------------------------------
\* Bounds of the model
\* ------------------------------------------------------------------------
\* a question is the concatenation of at most MaxPieces pieces
MaxPieces == 2
\* a generated continuation overshoots the display length by at most MaxExtra
MaxExtra == 1
\* leading / trailing whitespace of a generated continuation
MaxPad == 1
\* rows of an uploaded CSV
MaxRows == 1

\* ------------------------------------------------------------------------
\* str operations
\* ------------------------------------------------------------------------
UpperChars == <<"A","B","C","D","E","F","G","H","I","J","K","L","M",
                "N","O","P","Q","R","S","T","U","V","W","X","Y","Z">>
LowerChars == <<"a","b","c","d","e","f","g","h","i","j","k","l","m",
                "n","o","p","q","r","s","t","u","v","w","x","y","z">>

LowerChar(c) ==
    IF \E i \in 1..26 : UpperChars[i] = c
    THEN LowerChars[CHOOSE i \in 1..26 : UpperChars[i] = c]
    ELSE c

\* str.lower()
Lower(s) == [i \in 1..Len(s) |-> LowerChar(s[i])]

\* the Python test `k in s` on strings: k occurs as a contiguous substring
Contains(s, k) == \E i \in 0..(Len(s) - Len(k)) : SubSeq(s, i + 1, i + Len(k)) = k

Whitespace == {" ", "\n", "\t"}

RECURSIVE LStrip(_)
LStrip(s) == IF s # <<>> /\ Head(s) \in Whitespace THEN LStrip(Tail(s)) ELSE s

RECURSIVE RStrip(_)
RStrip(s) ==
    IF s # <<>> /\ s[Len(s)] \in Whitespace THEN RStrip(SubSeq(s, 1, Len(s) - 1)) ELSE s

\* str.strip(): drop leading and trailing whitespace
Strip(s) == RStrip(LStrip(s))

\* s[n:]
DropPrefix(s, n) == SubSeq(s, n + 1, Len(s))

\* s[:n]
TakePrefix(s, n) == SubSeq(s, 1, IF n < Len(s) THEN n ELSE Len(s))

Rep(c, n) == [i \in 1..n |-> c]

\* ------------------------------------------------------------------------
\* The keyword table and the reply templates (AI_app.py 113-142)
\* ------------------------------------------------------------------------
K_hours == <<"h","o","u","r","s">>
K_time == <<"t","i","m","e">>
K_volunteer == <<"v","o","l","u","n","t","e","e","r">>
K_donate == <<"d","o","n","a","t","e">>
K_programs == <<"p","r","o","g","r","a","m","s">>
K_services == <<"s","e","r","v","i","c","e","s">>
K_contact == <<"c","o","n","t","a","c","t">>
K_phone == <<"p","h","o","n","e">>
K_email == <<"e","m","a","i","l">>
K_emergency == <<"e","m","e","r","g","e","n","c","y">>
K_crisis == <<"c","r","i","s","i","s">>
K_urgent == <<"u","r","g","e","n","t">>

HoursTemplate == <<"**Our Hours:** Monday-Friday 9 AM to 6 PM, Saturday 10 AM to 4 PM. We're closed on Sundays and major holidays. For emergency assistance, please call our 24/7 helpline at (555) 999-HELP.">>
VolunteerTemplate == <<"**Volunteer Opportunities:** We'd love your help! Current openings include tutoring, food service, event planning, and administrative support. Please visit our website to complete the volunteer application and background check.">>
DonateTemplate == <<"**Donations:** Thank you for your generosity! You can donate online at our secure portal, by phone (555) 123-4567, or mail checks to 123 Community St. All donations are tax-deductible!">>
ProgramsTemplate == <<"**Our Programs:** Youth Mentoring (ages 12-18), Job Training, Food Assistance, Housing Support, Educational Workshops, and Senior Services. Which program would you like to learn more about?">>
ContactTemplate == <<"**Contact Information:** Phone: (555) 123-4567 | Email: info@nonprofitcommunity.org | Address: 123 Community St, City, State 12345 | Emergency Helpline: (555) 999-HELP (24/7)">>
EmergencyTemplate == <<"**Emergency Resources:** Crisis Hotline: (555) 999-HELP (24/7) | Emergency Food: Available during office hours | Mental Health: Free counseling referrals | If this is life-threatening, please call 911.">>
DefaultMessage == <<"Thanks for your question! I can help you with information about our **hours, volunteer opportunities, donations, programs, contact information,** and **emergency resources**. What would you like to know more about?">>
AIPrefix == <<"**AI Assistant:** ">>
AISuffix == <<"\n\n*For specific information about our programs, try asking about hours, volunteering, donations, or services.*">>

\* app.py 20-32
AppHoursTemplate == <<"We're open Monday-Friday 9 AM to 6 PM, Saturday 10 AM to 4 PM">>
AppVolunteerTemplate == <<"We'd love your help! We need volunteers for tutoring, food service, and events. Visit our website to apply!">>
AppDonateTemplate == <<"Thank you! You can donate online, by phone (555-123-4567), or visit our office at 123 Community St.">>
AppProgramsTemplate == <<"We offer youth mentoring, job training, food assistance, and housing support. Which interests you?">>
AppDefaultHead == <<"Thanks for asking about '">>
AppDefaultTail == <<"'. Try asking about our hours, volunteer opportunities, donations, or programs!">>

Categories == {"hours", "volunteer", "donate", "programs", "contact", "emergency", "unmatched"}

\* generate_ai_response, line 154
nonprofit_context ==
    <<"Y","o","u"," ","a","r","e"," ","a"," ","h","e","l","p","f","u","l"," ","a","s","s","i",
      "s","t","a","n","t"," ","f","o","r"," ","a"," ","n","o","n","p","r","o","f","i","t"," ",
      "o","r","g","a","n","i","z","a","t","i","o","n"," ","t","h","a","t"," ","p","r","o","v",
      "i","d","e","s"," ","c","o","m","m","u","n","i","t","y"," ","s","e","r","v","i","c","e",
      "s"," ","i","n","c","l","u","d","i","n","g"," ","y","o","u","t","h"," ","m","e","n","t",
      "o","r","i","n","g",","," ","j","o","b"," ","t","r","a","i","n","i","n","g",","," ","f",
      "o","o","d"," ","a","s","s","i","s","t","a","n","c","e",","," ","h","o","u","s","i","n",
      "g"," ","s","u","p","p","o","r","t",","," ","a","n","d"," ","e","m","e","r","g","e","n",
      "c","y"," ","s","e","r","v","i","c","e","s","."," ">>

\* generate_ai_response, line 178
MaxDisplay == 200
Ellipsis == <<".", ".", ".">>

\* ------------------------------------------------------------------------
\* Inputs
\* ------------------------------------------------------------------------
\* Pieces questions are built from: the twelve keywords, an upper-case
\* keyword, a mis-cased near miss ("Hour", which "s" completes), word
\* endings, whitespace, punctuation with and without a space before it, and
\* a word that is no keyword.
W_hello == <<"h","e","l","l","o">>
Pieces == {K_hours, K_time, K_volunteer, K_donate, K_programs, K_services,
           K_contact, K_phone, K_email, K_emergency, K_crisis, K_urgent,
           <<"D","O","N","A","T","E">>, <<"H","o","u","r">>, <<"s">>, <<"d">>,
           <<" ">>, <<"?">>, <<" ","?">>, W_hello}

RECURSIVE Flatten(_)
Flatten(ps) == IF ps = <<>> THEN <<>> ELSE Head(ps) \o Flatten(Tail(ps))

Questions == UNION {{Flatten(ps) : ps \in [1..n -> Pieces]} : n \in 0..MaxPieces}

\* what the text input of the page can hold
UIQuestions == {<<>>, <<" ">>, W_hello, <<"H","e","l","l","o">>,
                K_volunteer \o <<" ">> \o <<"H","O","U","R","S">>, K_contact}

\* the questions whose classifications a session records
ProbeQuestions == {W_hello, K_volunteer \o <<" ">> \o <<"H","O","U","R","S">>, K_contact}

\* the text a generation adds after the prompt: optional whitespace around a
\* body of n characters
Body(n) == IF n = 0 THEN <<>> ELSE <<"R">> \o Rep("x", n - 1)
BodyLens == {0, 1} \cup ((MaxDisplay - 1)..(MaxDisplay + MaxExtra))
Continuations ==
    {Rep(" ", l) \o Body(n) \o Rep("\n", t) : l \in 0..MaxPad, t \in 0..MaxPad, n \in BodyLens}

\* what one run of the tokenizer and the model does: encode raises,
\* generate raises, or the output decodes to the prompt followed by cont
GenOutcomes ==
    {[kind |-> k, cont |-> <<>>] : k \in {"encode_raises", "generate_raises"}}
    \cup {[kind |-> "ok", cont |-> c] : c \in Continuations}

\* the value load_ai_model returns: None, or the dict of model and tokenizer.
\* cleanup is the tokenizer's clean_up_tokenization_spaces setting.
NoneModel == [loaded |-> FALSE, cleanup |-> FALSE]
LoadedModels == {[loaded |-> TRUE, cleanup |-> c] : c \in BOOLEAN}
Truthy(m) == m.loaded

\* ------------------------------------------------------------------------
\* The tokenizer round trip (AI_app.py 158, 172)
\* ------------------------------------------------------------------------
Punct == {".", "?", "!", ","}

\* clean_up_tokenization replaces " ." by ".", " ?" by "?", " !" by "!" and
\* " ," by ",": a space directly before a punctuation mark is dropped.  (Its
\* rules for apostrophes do not arise: no input here has one.)
Dropped(s, i) == s[i] = " " /\ i < Len(s) /\ s[i + 1] \in Punct

RECURSIVE CleanUpRange(_, _, _)
CleanUpRange(s, lo, hi) ==
    IF lo > hi THEN <<>>
    ELSE IF lo = hi THEN (IF Dropped(s, lo) THEN <<>> ELSE <<s[lo]>>)
    ELSE LET mid == (lo + hi) \div 2
         IN  CleanUpRange(s, lo, mid) \o CleanUpRange(s, mid + 1, hi)

CleanUp(s) == CleanUpRange(s, 1, Len(s))

\* tokenizer.decode(outputs[0], skip_special_tokens=True): the text of the
\* prompt tokens followed by the text of the generated tokens
Decode(m, full_input, cont) ==
    (IF m.cleanup THEN CleanUp(full_input) ELSE full_input) \o cont

\* ------------------------------------------------------------------------
\* generate_ai_response (AI_app.py 144-184)
\* ------------------------------------------------------------------------
NoneResult(n) == [exc |-> FALSE, isNone |-> TRUE, text |-> <<>>, gen_calls |-> n]
\* generate_ai_response was not called
NotCalled == NoneResult(0)

\* lines 177-179
Truncate(response) ==
    IF Len(response) > MaxDisplay
    THEN TakePrefix(response, MaxDisplay) \o Ellipsis
    ELSE response

\* the body of the try block, lines 150-181: exc tells that an exception
\* left it, gen_calls how often model.generate was entered
generate_body(question, m, outcome) ==
    LET full_input == nonprofit_context \o question
    IN  IF outcome.kind = "encode_raises"
        THEN [exc |-> TRUE, isNone |-> TRUE, text |-> <<>>, gen_calls |-> 0]
        ELSE IF outcome.kind = "generate_raises"
        THEN [exc |-> TRUE, isNone |-> TRUE, text |-> <<>>, gen_calls |-> 1]
        ELSE LET decoded  == Decode(m, full_input, outcome.cont)
                 response == Strip(DropPrefix(decoded, Len(full_input)))
             IN  [exc |-> FALSE, isNone |-> FALSE,
                  text |-> Truncate(response), gen_calls |-> 1]

generate_ai_response(question, m, hf, outcome) ==
    IF ~Truthy(m) \/ ~hf THEN NoneResult(0)
    ELSE LET b == generate_body(question, m, outcome)
         IN  IF b.exc THEN NoneResult(b.gen_calls)   \* except Exception: return None
             ELSE b

\* ------------------------------------------------------------------------
\* get_chatbot_answer (AI_app.py 108-142)
\* ------------------------------------------------------------------------
\* the result of a call: the returned str, whether an exception left the
\* call, the branch taken, and what generate_ai_response did for it (r)
Reply(text, cat, r) ==
    [ret |-> text, raised |-> FALSE, category |-> cat, gen_calls |-> r.gen_calls,
     ai_response |-> [isNone |-> r.isNone, text |-> r.text]]

NoReply == [ret |-> <<>>, raised |-> FALSE, category |-> "none", gen_calls |-> 0,
            ai_response |-> [isNone |-> TRUE, text |-> <<>>]]

Keywords == {K_hours, K_time, K_volunteer, K_donate, K_programs, K_services,
             K_contact, K_phone, K_email, K_emergency, K_crisis, K_urgent}

\* the if/elif chain of lines 113-129; found is the set of keywords k for
\* which the test `k in question_lower` succeeds.  NoReply when no rule applies.
KeywordRules(found) ==
    IF K_hours \in found \/ K_time \in found THEN Reply(HoursTemplate, "hours", NotCalled)
    ELSE IF K_volunteer \in found THEN Reply(VolunteerTemplate, "volunteer", NotCalled)
    ELSE IF K_donate \in found THEN Reply(DonateTemplate, "donate", NotCalled)
    ELSE IF K_programs \in found \/ K_services \in found
         THEN Reply(ProgramsTemplate, "programs", NotCalled)
    ELSE IF K_contact \in found \/ K_phone \in found \/ K_email \in found
         THEN Reply(ContactTemplate, "contact", NotCalled)
    ELSE IF K_emergency \in found \/ K_crisis \in found \/ K_urgent \in found
         THEN Reply(EmergencyTemplate, "emergency", NotCalled)
    ELSE NoReply

\* lines 133-142 once generate_ai_response has returned r or raised
AIReply(r) ==
    IF r.exc THEN Reply(DefaultMessage, "unmatched", r)   \* except Exception: pass
    ELSE IF ~r.isNone /\ r.text # <<>> /\ Len(Strip(r.text)) > 0
         THEN Reply(AIPrefix \o r.text \o AISuffix, "unmatched", r)
         ELSE Reply(DefaultMessage, "unmatched", r)

\* variant: the generated text is returned as it is, without the check of
\* line 135 and without the fixed text around it
get_chatbot_answer_raw(question, m, hf, outcome) ==
    LET question_lower == Lower(question)
        rule == KeywordRules({k \in Keywords : Contains(question_lower, k)})
    IN  IF rule.category # "none" THEN rule
        ELSE IF Truthy(m) /\ hf
             THEN LET r == generate_ai_response(question, m, hf, outcome)
                  IN  Reply(r.text, "unmatched", r)
             ELSE Reply(DefaultMessage, "unmatched", NotCalled)

\* variant: the keywords are searched in the question as typed
get_chatbot_answer_nolower(question, m, hf, outcome) ==
    LET rule == KeywordRules({k \in Keywords : Contains(question, k)})
    IN  IF rule.category # "none" THEN rule
        ELSE IF Truthy(m) /\ hf
             THEN AIReply(generate_ai_response(question, m, hf, outcome))
             ELSE Reply(DefaultMessage, "unmatched", NotCalled)

\* variant: line 135 only tests `ai_response is not None`
get_chatbot_answer_nocheck(question, m, hf, outcome) ==
    LET question_lower == Lower(question)
        rule == KeywordRules({k \in Keywords : Contains(question_lower, k)})
    IN  IF rule.category # "none" THEN rule
        ELSE IF Truthy(m) /\ hf
             THEN LET r == generate_ai_response(question, m, hf, outcome)
                  IN  IF ~r.exc /\ ~r.isNone
                      THEN Reply(AIPrefix \o r.text \o AISuffix, "unmatched", r)
                      ELSE Reply(DefaultMessage, "unmatched", r)
             ELSE Reply(DefaultMessage, "unmatched", NotCalled)

\* variant: the default message quotes the question, as app.py's does
get_chatbot_answer_echo(question, m, hf, outcome) ==
    LET question_lower == Lower(question)
        rule == KeywordRules({k \in Keywords : Contains(question_lower, k)})
        dflt == AppDefaultHead \o question_lower \o AppDefaultTail
    IN  IF rule.category # "none" THEN rule
        ELSE IF Truthy(m) /\ hf
             THEN LET r == generate_ai_response(question, m, hf, outcome)
                  IN  IF AIReply(r).ret = DefaultMessage
                      THEN Reply(dflt, "unmatched", r) ELSE AIReply(r)
             ELSE Reply(dflt, "unmatched", NotCalled)

\* variant: a generation that gave nothing is tried a second time
get_chatbot_answer_retry(question, m, hf, outcome) ==
    LET question_lower == Lower(question)
        rule == KeywordRules({k \in Keywords : Contains(question_lower, k)})
    IN  IF rule.category # "none" THEN rule
        ELSE IF Truthy(m) /\ hf
             THEN LET r1 == generate_ai_response(question, m, hf, outcome)
                      r2 == generate_ai_response(question, m, hf, outcome)
                  IN  IF r1.isNone
                      THEN AIReply([r2 EXCEPT !.gen_calls = r1.gen_calls + r2.gen_calls])
                      ELSE AIReply(r1)
             ELSE Reply(DefaultMessage, "unmatched", NotCalled)

\* variant: the operands of `in` are swapped (question_lower in keyword)
get_chatbot_answer_swapped(question, m, hf, outcome) ==
    LET question_lower == Lower(question)
        rule == KeywordRules({k \in Keywords : Contains(k, question_lower)})
    IN  IF rule.category # "none" THEN rule
        ELSE IF Truthy(m) /\ hf
             THEN AIReply(generate_ai_response(question, m, hf, outcome))
             ELSE Reply(DefaultMessage, "unmatched", NotCalled)

\* variant: the model is asked first and the keyword rules only when it
\* gives nothing
get_chatbot_answer_aifirst(question, m, hf, outcome) ==
    LET question_lower == Lower(question)
        rule == KeywordRules({k \in Keywords : Contains(question_lower, k)})
        r == generate_ai_response(question, m, hf, outcome)
    IN  IF Truthy(m) /\ hf /\ AIReply(r).ret # DefaultMessage THEN AIReply(r)
        ELSE IF rule.category # "none" THEN [rule EXCEPT !.gen_calls = r.gen_calls]
        ELSE Reply(DefaultMessage, "unmatched", r)

get_chatbot_answer(question, m, hf, outcome) ==
    LET question_lower == Lower(question)
        rule == KeywordRules({k \in Keywords : Contains(question_lower, k)})
    IN  IF rule.category # "none" THEN rule
        ELSE IF Truthy(m) /\ hf
             THEN AIReply(generate_ai_response(question, m, hf, outcome))
             ELSE Reply(DefaultMessage, "unmatched", NotCalled)

\* ------------------------------------------------------------------------
\* get_chatbot_answer of app.py (15-32)
\* ------------------------------------------------------------------------
app_get_chatbot_answer(question0) ==
    LET question == Lower(question0)
        has(k) == Contains(question, k)
    IN  IF has(K_hours) \/ has(K_time) THEN Reply(AppHoursTemplate, "hours", NotCalled)
        ELSE IF has(K_volunteer) THEN Reply(AppVolunteerTemplate, "volunteer", NotCalled)
        ELSE IF has(K_donate) THEN Reply(AppDonateTemplate, "donate", NotCalled)
        ELSE IF has(K_programs) \/ has(K_services)
             THEN Reply(AppProgramsTemplate, "programs", NotCalled)
        ELSE Reply(AppDefaultHead \o question \o AppDefaultTail, "unmatched", NotCalled)

\* ------------------------------------------------------------------------
\* State
\* ------------------------------------------------------------------------
VARIABLES
    program,        \* which script runs: "AI_app" (AI_app.py) or "app" (app.py)
    libs,           \* environment: transformers and torch can be imported
    HF_AVAILABLE,   \* AI_app.py 7-12
    cache,          \* the st.cache_resource entry of load_ai_model
    ai_model,       \* AI_app.py 105
    load_count,     \* how often the body of load_ai_model has run
    pc,             \* position of the script run: idle, tab1, rerun, tab2, tab3
    clicked,        \* the button that triggered this run
    new_file,       \* this run was triggered by a change of the file uploader
    user_question,  \* value of the text input
    uploaded_file,  \* value of the file uploader
    session_data,   \* st.session_state['data']
    asked,          \* argument of the latest get_chatbot_answer call
    last,           \* what the latest get_chatbot_answer call did
    last_outcome,   \* what the backend did in that call
    fallback_seen,  \* some call so far reached the branch after the keyword rules
    probe,          \* a question whose calls are recorded
    cats_seen,      \* the categories probe has been given so far
    probe_calls,    \* how often probe has been asked (counted up to CallCap)
    probe_last,     \* what the latest call that asked probe did
    sidebar_status, \* data status shown by the sidebar in this run
    chart_status,   \* data the Charts tab used in this run
    page            \* messages rendered in this run

vars == <<program, libs, HF_AVAILABLE, cache, ai_model, load_count, pc, clicked, new_file,
          user_question, uploaded_file, session_data, asked, last, last_outcome,
          fallback_seen, probe, cats_seen, probe_calls, probe_last, sidebar_status,
          chart_status, page>>

backendVars == <<libs, HF_AVAILABLE, cache, ai_model, load_count>>
uiVars == <<pc, clicked, new_file, user_question, uploaded_file, session_data,
            sidebar_status, chart_status, page>>
probeVars == <<probe, cats_seen, probe_calls, probe_last>>

Programs == {"AI_app", "app"}

\* the counters of calls and loads stop counting here
CallCap == 2
LoadCap == 2

NoFile == [present |-> FALSE, valid |-> FALSE, rows |-> 0]
Files == {[present |-> TRUE, valid |-> FALSE, rows |-> 0]}
         \cup {[present |-> TRUE, valid |-> TRUE, rows |-> n] : n \in 0..MaxRows}

NoData == [present |-> FALSE, rows |-> 0, src |-> "none"]
NoStatus == [shown |-> FALSE, present |-> FALSE, rows |-> 0]
NoOutcome == [kind |-> "none", cont |-> <<>>]

EmptyCache == [filled |-> FALSE, value |-> NoneModel]

\* what the model loading at lines 92-93 can do: only reached when the
\* libraries were imported; it returns the dict or raises
LoadResults(hf) == IF hf THEN LoadedModels \cup {NoneModel} ELSE {NoneModel}

Bump(n, cap) == IF n < cap THEN n + 1 ELSE n

\* ------------------------------------------------------------------------
\* Calls of the answer functions
\* ------------------------------------------------------------------------
\* bookkeeping of one call of an answer function with argument q
Record(q, r, outcome) ==
    /\ asked' = q
    /\ last' = r
    /\ last_outcome' = IF r.gen_calls > 0 \/ outcome.kind = "encode_raises"
                       THEN outcome ELSE NoOutcome
    /\ fallback_seen' = (fallback_seen \/ r.category = "unmatched")
    /\ cats_seen' = IF q = probe THEN cats_seen \cup {r.category} ELSE cats_seen
    /\ probe_calls' = IF q = probe THEN Bump(probe_calls, CallCap) ELSE probe_calls
    /\ probe_last' = IF q = probe THEN r ELSE probe_last
    /\ probe' = probe

\* the backend only produces an outcome in a call that reaches it: a call
\* whose generation would raise tells whether q gets that far
Consults(q) ==
    LET r == get_chatbot_answer(q, ai_model, HF_AVAILABLE,
                                [kind |-> "generate_raises", cont |-> <<>>])
    IN  r.gen_calls > 0 \/ r.raised

OutcomesFor(q, outcomes) == IF Consults(q) THEN outcomes ELSE {NoOutcome}

\* a direct call get_chatbot_answer(probe) of AI_app.py
AnswerAI ==
    /\ program = "AI_app"
    /\ probe_calls = 0
    /\ \E outcome \in OutcomesFor(probe, GenOutcomes) :
          Record(probe, get_chatbot_answer(probe, ai_model, HF_AVAILABLE, outcome), outcome)
    /\ UNCHANGED <<program, backendVars, uiVars>>

\* a direct call get_chatbot_answer(probe) of app.py
AnswerApp ==
    /\ program = "app"
    /\ probe_calls = 0
    /\ Record(probe, app_get_chatbot_answer(probe), NoOutcome)
    /\ UNCHANGED <<program, backendVars, uiVars>>

\* the state once the module has been executed (lines 1-184), for every
\* question, import result and load result; the function is then applied once
InitAnswer ==
    /\ program \in Programs
    /\ libs \in BOOLEAN
    /\ HF_AVAILABLE = (libs /\ program = "AI_app")
    /\ ai_model \in LoadResults(HF_AVAILABLE)
    /\ cache = IF program = "AI_app" THEN [filled |-> TRUE, value |-> ai_model] ELSE EmptyCache
    /\ load_count = IF program = "AI_app" THEN 1 ELSE 0
    /\ pc = "idle"
    /\ clicked = "none"
    /\ new_file = FALSE
    /\ user_question = <<>>
    /\ uploaded_file = NoFile
    /\ session_data = NoData
    /\ asked = <<>>
    /\ last = NoReply
    /\ last_outcome = NoOutcome
    /\ fallback_seen = FALSE
    /\ probe \in Questions
    /\ cats_seen = {}
    /\ probe_calls = 0
    /\ probe_last = NoReply
    /\ sidebar_status = NoStatus
    /\ chart_status = NoStatus
    /\ page = {}

NextAnswer == AnswerAI \/ AnswerApp

SpecAnswer == InitAnswer /\ [][NextAnswer]_vars

\* ------------------------------------------------------------------------
\* The Streamlit script run
\* ------------------------------------------------------------------------
\* AI_app.py 399
SampleRows == 20

\* backend outcomes drawn in a script run
UIOutcomes ==
    {o \in GenOutcomes : o.kind # "ok" \/ o.cont \in {<<>>, <<" ", "R", "\n">>,
                                                       Body(MaxDisplay + 1)}}

\* the status line of a data table
StatusOf(d) == [shown |-> TRUE, present |-> d.present, rows |-> d.rows]

\* variant: a stored None does not count as an entry, the body runs again
load_ai_model_retry_none(c, hf, r) ==
    IF c.filled /\ Truthy(c.value)
    THEN [value |-> c.value, cache |-> c, ran |-> FALSE]
    ELSE [value |-> r, cache |-> [filled |-> TRUE, value |-> r], ran |-> TRUE]

\* load_ai_model under st.cache_resource (AI_app.py 81-105): the body runs
\* only when the cache holds no entry, and whatever it returns is stored
load_ai_model(c, hf, r) ==
    IF c.filled
    THEN [value |-> c.value, cache |-> c, ran |-> FALSE]
    ELSE [value |-> r, cache |-> [filled |-> TRUE, value |-> r], ran |-> TRUE]

\* the script from its first line to the tabs: AI_app.py 1-222, app.py 1-36
TopOfScript ==
    /\ asked' = <<>>
    /\ last' = NoReply
    /\ last_outcome' = NoOutcome
    /\ chart_status' = NoStatus
    /\ IF program = "AI_app"
       THEN /\ HF_AVAILABLE' = libs
            /\ \E r \in LoadResults(libs) :
                  LET l == load_ai_model(cache, libs, r)
                  IN  /\ ai_model' = l.value
                      /\ cache' = l.cache
                      /\ load_count' = IF l.ran THEN Bump(load_count, LoadCap) ELSE load_count
                      /\ page' = IF l.ran /\ libs /\ ~Truthy(r) THEN {"error_loading_model"} ELSE {}
            /\ sidebar_status' = StatusOf(session_data)
       ELSE /\ UNCHANGED <<HF_AVAILABLE, ai_model, cache, load_count>>
            /\ sidebar_status' = NoStatus
            /\ page' = {}

Buttons == IF program = "AI_app" THEN {"ask", "clear", "sample"} ELSE {"ask"}

\* the user presses a button: the script reruns with the widgets as they are
Click ==
    /\ pc = "idle"
    /\ \E b \in Buttons : clicked' = b
    /\ new_file' = FALSE
    /\ UNCHANGED <<user_question, uploaded_file>>
    /\ TopOfScript
    /\ pc' = "tab1"
    /\ UNCHANGED <<program, libs, session_data, fallback_seen, probeVars>>

\* the user edits the text input: the script reruns
TypeQuestion ==
    /\ pc = "idle"
    /\ \E q \in UIQuestions \ {user_question} : user_question' = q
    /\ clicked' = "none"
    /\ new_file' = FALSE
    /\ UNCHANGED uploaded_file
    /\ TopOfScript
    /\ pc' = "tab1"
    /\ UNCHANGED <<program, libs, session_data, fallback_seen, probeVars>>

\* the user puts a file into the uploader, replaces it or removes it
ChangeFile ==
    /\ pc = "idle"
    /\ \E f \in (Files \cup {NoFile}) \ {uploaded_file} : uploaded_file' = f
    /\ clicked' = "none"
    /\ new_file' = TRUE
    /\ UNCHANGED user_question
    /\ TopOfScript
    /\ pc' = "tab1"
    /\ UNCHANGED <<program, libs, session_data, fallback_seen, probeVars>>

\* any other widget event (the column selectbox, a page reload of the widgets)
Refresh ==
    /\ pc = "idle"
    /\ clicked' = "none"
    /\ new_file' = FALSE
    /\ UNCHANGED <<user_question, uploaded_file>>
    /\ TopOfScript
    /\ pc' = "tab1"
    /\ UNCHANGED <<program, libs, session_data, fallback_seen, probeVars>>

\* st.rerun() (AI_app.py 268): the run starts over with no button pressed
Rerun ==
    /\ pc = "rerun"
    /\ clicked' = "none"
    /\ new_file' = FALSE
    /\ UNCHANGED <<user_question, uploaded_file>>
    /\ TopOfScript
    /\ pc' = "tab1"
    /\ UNCHANGED <<program, libs, session_data, fallback_seen, probeVars>>

\* the run makes no call
NoCall == UNCHANGED <<asked, last, last_outcome, fallback_seen, probeVars>>

\* variant: when the generation gave nothing, the cached model is dropped so
\* that the next run loads it again
Tab1AI_drops_cache ==
    /\ program = "AI_app"
    /\ pc = "tab1"
    /\ IF clicked = "ask"
       THEN IF user_question # <<>>
            THEN /\ \E outcome \in OutcomesFor(user_question, UIOutcomes) :
                       Record(user_question,
                                get_chatbot_answer(user_question, ai_model, HF_AVAILABLE, outcome),
                                outcome)
                 /\ page' = page \cup {"answer"}
                 /\ pc' = "tab2"
            ELSE /\ NoCall
                 /\ page' = page \cup {"please_type_a_question"}
                 /\ pc' = "tab2"
       ELSE /\ NoCall
            /\ page' = page
            /\ pc' = IF clicked = "clear" THEN "rerun" ELSE "tab2"
    /\ cache' = IF last'.gen_calls > 0 /\ last'.ai_response.isNone THEN EmptyCache ELSE cache
    /\ UNCHANGED <<program, libs, HF_AVAILABLE, ai_model, load_count, clicked, new_file,
                   user_question,
                   uploaded_file, session_data, sidebar_status, chart_status>>

\* the chatbot tab: AI_app.py 225-299
Tab1AI ==
    /\ program = "AI_app"
    /\ pc = "tab1"
    /\ IF clicked = "ask"
       THEN IF user_question # <<>>
            THEN /\ \E outcome \in OutcomesFor(user_question, UIOutcomes) :
                       Record(user_question,
                                get_chatbot_answer(user_question, ai_model, HF_AVAILABLE, outcome),
                                outcome)
                 /\ page' = page \cup {"answer"}
                 /\ pc' = "tab2"
            ELSE /\ NoCall
                 /\ page' = page \cup {"please_type_a_question"}
                 /\ pc' = "tab2"
       ELSE /\ NoCall
            /\ page' = page
            /\ pc' = IF clicked = "clear" THEN "rerun" ELSE "tab2"
    /\ UNCHANGED <<program, backendVars, clicked, new_file, user_question, uploaded_file,
                   session_data, sidebar_status, chart_status>>

\* the chatbot tab: app.py 39-54
Tab1App ==
    /\ program = "app"
    /\ pc = "tab1"
    /\ IF clicked = "ask"
       THEN IF user_question # <<>>
            THEN /\ Record(user_question, app_get_chatbot_answer(user_question), NoOutcome)
                 /\ page' = page \cup {"answer"}
            ELSE /\ NoCall
                 /\ page' = page \cup {"please_type_a_question"}
       ELSE /\ NoCall
            /\ page' = page
    /\ pc' = "tab2"
    /\ UNCHANGED <<program, backendVars, clicked, new_file, user_question, uploaded_file,
                   session_data, sidebar_status, chart_status>>

UploadedTable(f) == [present |-> TRUE, rows |-> f.rows, src |-> "upload"]
SampleTable == [present |-> TRUE, rows |-> SampleRows, src |-> "sample"]

\* variant: a file that cannot be read clears the stored table
UploadAI_resets(f, d) ==
    IF ~f.present THEN [data |-> d, msgs |-> {}]
    ELSE IF ~f.valid THEN [data |-> NoData, msgs |-> {"error_processing_file", "tip_valid_csv"}]
    ELSE [data |-> UploadedTable(f),
          msgs |-> (IF f.rows = 0
                    THEN {"error_file_empty", "success_no_missing_values", "warning_completeness"}
                    ELSE {"quality_assessment"})
                   \cup {"success_file_processed"}]

\* the upload block: AI_app.py 318-371.  pd.read_csv raises on a file that is
\* no CSV; on a table without rows the completeness is 0/0, which numpy
\* evaluates to nan without raising, so the last branch of 358-363 is taken.
UploadAI(f, d) ==
    IF ~f.present THEN [data |-> d, msgs |-> {}]
    ELSE IF ~f.valid THEN [data |-> d, msgs |-> {"error_processing_file", "tip_valid_csv"}]
    ELSE [data |-> UploadedTable(f),
          msgs |-> (IF f.rows = 0
                    THEN {"error_file_empty", "success_no_missing_values", "warning_completeness"}
                    ELSE {"quality_assessment"})
                   \cup {"success_file_processed"}]

\* the upload tab: AI_app.py 302-414
Tab2AI ==
    /\ program = "AI_app"
    /\ pc = "tab2"
    /\ LET u  == UploadAI(uploaded_file, session_data)
           d2 == IF clicked = "sample" THEN SampleTable ELSE u.data
           m2 == IF clicked = "sample" THEN {"success_sample_generated"} ELSE {}
           m3 == IF ~d2.present THEN {"ready_to_upload"} ELSE {}
       IN  /\ session_data' = d2
           /\ page' = page \cup u.msgs \cup m2 \cup m3
    /\ pc' = "tab3"
    /\ UNCHANGED <<program, backendVars, clicked, new_file, user_question, uploaded_file, asked,
                   last, last_outcome, fallback_seen, sidebar_status, chart_status, probeVars>>

\* the upload block: app.py 63-95
UploadApp(f, d) ==
    IF ~f.present THEN [data |-> d, msgs |-> {"upload_hint"}]
    ELSE IF ~f.valid THEN [data |-> d, msgs |-> {"error_reading_file"}]
    ELSE [data |-> UploadedTable(f), msgs |-> {"success_file_uploaded"}]

\* the upload tab: app.py 57-95
Tab2App ==
    /\ program = "app"
    /\ pc = "tab2"
    /\ LET u == UploadApp(uploaded_file, session_data)
       IN  /\ session_data' = u.data
           /\ page' = page \cup u.msgs
    /\ pc' = "tab3"
    /\ UNCHANGED <<program, backendVars, clicked, new_file, user_question, uploaded_file, asked,
                   last, last_outcome, fallback_seen, sidebar_status, chart_status, probeVars>>

\* the charts tab: AI_app.py 417-498, app.py 98-145
Tab3 ==
    /\ pc = "tab3"
    /\ chart_status' = StatusOf(session_data)
    /\ page' = page \cup (IF session_data.present THEN {"chart"} ELSE {"please_upload_data"})
    /\ pc' = "idle"
    /\ UNCHANGED <<program, backendVars, clicked, new_file, user_question, uploaded_file, session_data,
                   asked, last, last_outcome, fallback_seen, sidebar_status, probeVars>>

\* the server has started and no script run has happened yet
Init ==
    /\ program \in Programs
    /\ libs \in BOOLEAN
    /\ HF_AVAILABLE = FALSE
    /\ ai_model = NoneModel
    /\ cache = EmptyCache
    /\ load_count = 0
    /\ pc = "idle"
    /\ clicked = "none"
    /\ new_file = FALSE
    /\ user_question = <<>>
    /\ uploaded_file = NoFile
    /\ session_data = NoData
    /\ asked = <<>>
    /\ last = NoReply
    /\ last_outcome = NoOutcome
    /\ fallback_seen = FALSE
    /\ probe \in ProbeQuestions
    /\ cats_seen = {}
    /\ probe_calls = 0
    /\ probe_last = NoReply
    /\ sidebar_status = NoStatus
    /\ chart_status = NoStatus
    /\ page = {}

Next ==
    \/ Click
    \/ TypeQuestion
    \/ ChangeFile
    \/ Refresh
    \/ Rerun
    \/ Tab1AI
    \/ Tab1App
    \/ Tab2AI
    \/ Tab2App
    \/ Tab3

Spec == Init /\ [][Next]_vars

\* ------------------------------------------------------------------------
\* Vocabulary of the properties
\* ------------------------------------------------------------------------
\* the documented priority list of categories and their keywords
KeywordTable ==
    << [cat |-> "hours",     kws |-> {K_hours, K_time}],
       [cat |-> "volunteer", kws |-> {K_volunteer}],
       [cat |-> "donate",    kws |-> {K_donate}],
       [cat |-> "programs",  kws |-> {K_programs, K_services}],
       [cat |-> "contact",   kws |-> {K_contact, K_phone, K_email}],
       [cat |-> "emergency", kws |-> {K_emergency, K_crisis, K_urgent}] >>

\* the first of the first n categories one of whose keywords occurs in the
\* lowercased question, "unmatched" when there is none
FirstMatch(q, n) ==
    LET ql == Lower(q)
        hits == {i \in 1..n : \E k \in KeywordTable[i].kws : Contains(ql, k)}
    IN  IF hits = {} THEN "unmatched"
        ELSE KeywordTable[CHOOSE i \in hits : \A j \in hits : i <= j].cat

SpecCategory(q) == FirstMatch(q, 6)

TemplateOf(prog, cat) ==
    IF prog = "AI_app"
    THEN CASE cat = "hours" -> HoursTemplate
           [] cat = "volunteer" -> VolunteerTemplate
           [] cat = "donate" -> DonateTemplate
           [] cat = "programs" -> ProgramsTemplate
           [] cat = "contact" -> ContactTemplate
           [] cat = "emergency" -> EmergencyTemplate
           [] OTHER -> <<>>
    ELSE CASE cat = "hours" -> AppHoursTemplate
           [] cat = "volunteer" -> AppVolunteerTemplate
           [] cat = "donate" -> AppDonateTemplate
           [] cat = "programs" -> AppProgramsTemplate
           [] OTHER -> <<>>

AllTemplates == {TemplateOf(prog, c) : prog \in Programs, c \in Categories \ {"unmatched"}} \ {<<>>}

IsAI == program = "AI_app"
\* the answer function has been called (in this run, or directly)
Called == last.category # "none"
\* no generative backend is configured
Unconfigured == ~(Truthy(ai_model) /\ HF_AVAILABLE)
NonEmptyStr(t) == t # <<>> /\ \A i \in 1..Len(t) : t[i] # ""
IsBlank(q) == \A i \in 1..Len(q) : q[i] \in Whitespace
Raises == {"encode_raises", "generate_raises"}

\* ------------------------------------------------------------------------
\* Properties
\* ------------------------------------------------------------------------
\* C1: every call of get_chatbot_answer of AI_app.py returns a non-empty
\* string and no exception leaves it, whatever the question and whatever the
\* backend does (absent, failed to load, raising, empty output, success).
C1_AnswerNonEmpty ==
    (IsAI /\ Called) => (~last.raised /\ NonEmptyStr(last.ret))

C1_Witness ==
    /\ IsAI /\ Called
    /\ last_outcome.kind = "generate_raises"
    /\ ~last.raised /\ NonEmptyStr(last.ret)

\* C2 as stated: in both scripts the category is the first of the six
\* documented ones whose keyword occurs in the lowercased question, and a
\* question with "hours" or "time" gets the Hours template.
C2_FirstOfSix ==
    Called => /\ last.category = SpecCategory(asked)
              /\ SpecCategory(asked) = "hours" => last.ret = TemplateOf(program, "hours")

\* C2 amended: AI_app.py selects the first of the six categories, app.py the
\* first of the first four (hours/time, volunteer, donate, programs/services)
\* and treats everything else as unmatched; the reply of a matched question
\* is the template of its category, that of an unmatched one is no template.
C2_FirstMatchPerScript ==
    Called =>
        LET c == FirstMatch(asked, IF IsAI THEN 6 ELSE 4)
        IN  /\ last.category = c
            /\ c # "unmatched" => last.ret = TemplateOf(program, c)
            /\ c = "unmatched" => last.ret \notin AllTemplates

C2_Witness ==
    /\ IsAI /\ Called
    /\ Contains(Lower(asked), K_volunteer) /\ Contains(Lower(asked), K_hours)
    /\ last.ret = HoursTemplate

\* C3: an unmatched question whose backend is unavailable, raises, or yields
\* text that is empty after stripping gets exactly the default message, and
\* no exception leaves the call.
C3_FallsBackToDefault ==
    ( /\ IsAI /\ Called
      /\ SpecCategory(asked) = "unmatched"
      /\ \/ Unconfigured
         \/ last_outcome.kind \in Raises
         \/ last_outcome.kind = "ok" /\ Strip(last_outcome.cont) = <<>> )
    => (last.ret = DefaultMessage /\ ~last.raised)

C3_Witness ==
    /\ IsAI /\ Called /\ ~Unconfigured
    /\ last_outcome.kind = "ok" /\ last_outcome.cont # <<>> /\ Strip(last_outcome.cont) = <<>>
    /\ last.ret = DefaultMessage

\* C4 as stated: with no backend configured any two unmatched questions get
\* identical replies.
C4_SameReplyForAll ==
    (Called /\ Unconfigured /\ last.category = "unmatched" /\ probe_last.category = "unmatched")
    => last.ret = probe_last.ret

\* C4 amended: with no backend configured every unmatched question of
\* AI_app.py gets the one default message; app.py quotes the lowercased
\* question in its reply, so two unmatched questions get the same reply
\* exactly when they are equal up to letter case.
C4_SameReplyPerScript ==
    (Called /\ Unconfigured /\ last.category = "unmatched" /\ probe_last.category = "unmatched")
    => IF IsAI
       THEN last.ret = DefaultMessage /\ probe_last.ret = DefaultMessage
       ELSE (last.ret = probe_last.ret) <=> (Lower(asked) = Lower(probe))

C4_Witness ==
    /\ IsAI /\ Called /\ Unconfigured
    /\ last.category = "unmatched" /\ probe_last.category = "unmatched"
    /\ Lower(asked) # Lower(probe)

\* C5: model.generate runs at most once per question and only for a question
\* no keyword category matches; a matched question gets its template
\* verbatim without the backend being touched.
C5_GenerateAtMostOnce ==
    (IsAI /\ Called) =>
        /\ last.gen_calls <= 1
        /\ last.gen_calls = 1 => SpecCategory(asked) = "unmatched"
        /\ SpecCategory(asked) # "unmatched" =>
              /\ last.gen_calls = 0
              /\ last.ai_response.isNone
              /\ last.ret = TemplateOf("AI_app", SpecCategory(asked))

C5_Witness ==
    /\ IsAI /\ Called
    /\ last.gen_calls = 1 /\ last_outcome.kind = "ok"
    /\ last.ret # DefaultMessage

\* C6 as stated: an empty or whitespace-only question is unmatched and, with
\* no backend configured, gets the one default message of the script (for
\* app.py the message with nothing between its quotes), without raising.
C6_BlankGetsTheDefault ==
    (Called /\ IsBlank(asked) /\ Unconfigured) =>
        /\ last.category = "unmatched"
        /\ ~last.raised
        /\ last.ret = IF IsAI THEN DefaultMessage ELSE AppDefaultHead \o AppDefaultTail

\* C6 amended: an empty or whitespace-only question is unmatched and raises
\* nothing; with no backend configured AI_app.py answers the default message
\* and app.py answers its unmatched reply with the question's own whitespace
\* between the quotes.
C6_BlankIsUnmatched ==
    (Called /\ IsBlank(asked) /\ Unconfigured) =>
        /\ last.category = "unmatched"
        /\ ~last.raised
        /\ last.ret = IF IsAI THEN DefaultMessage
                      ELSE AppDefaultHead \o asked \o AppDefaultTail

C6_Witness ==
    /\ IsAI /\ Called /\ Unconfigured
    /\ asked = <<" ", " ">>
    /\ last.ret = DefaultMessage

\* C7 as stated: the backend is loaded at most once, and not before the first
\* unmatched question has been asked.
C7_LoadedLazily ==
    IsAI => (load_count <= 1 /\ (load_count > 0 => fallback_seen))

\* C7 amended: the backend is loaded at most once per process, by the first
\* script run (line 105), before any question is asked and whether or not an
\* unmatched question ever is; once a load result exists (model or None) every
\* later run and call uses that result and it is never dropped or reloaded.
C7_LoadedOnceAtFirstRun ==
    /\ [](IsAI => /\ load_count <= 1
                  /\ (pc # "idle" \/ Called) => (load_count = 1 /\ cache.filled)
                  /\ cache.filled => (load_count = 1 /\ ai_model = cache.value))
    /\ [][cache.filled => (cache' = cache /\ load_count' = load_count)]_vars

C7_Witness ==
    /\ IsAI /\ libs /\ pc = "idle"
    /\ load_count = 1 /\ cache.filled /\ cache.value = NoneModel
    /\ fallback_seen

\* the text the display rule gives for a continuation c
Displayed(c) ==
    IF Len(c) <= MaxDisplay THEN c ELSE SubSeq(c, 1, MaxDisplay) \o <<".", ".", ".">>

\* C8: what generate_ai_response returns is the generated continuation (the
\* output without the echoed prompt), stripped; unchanged when it has at most
\* 200 characters, else its first 200 characters followed by "...".
C8_ContinuationDisplayed ==
    (IsAI /\ Called /\ last_outcome.kind = "ok") =>
        /\ ~last.ai_response.isNone
        /\ last.ai_response.text = Displayed(Strip(last_outcome.cont))

\* C9: the same question is given the same category every time it is asked,
\* whatever was asked in between and whatever the backend did.
C9_SameCategoryEveryTime ==
    /\ Cardinality(cats_seen) <= 1
    /\ probe_calls > 0 => cats_seen = {probe_last.category}

C9_Witness ==
    /\ IsAI /\ ~Unconfigured
    /\ probe_calls >= 2 /\ Cardinality(cats_seen) = 1
    /\ Called /\ asked # probe

\* C10: a step in which get_chatbot_answer is called leaves the stored data
\* table, the cached backend, the backend handle and the availability flag
\* as they were.
C10_AnswerHasNoSideEffects ==
    [][(pc = "tab1" /\ last'.category # "none")
        => /\ session_data' = session_data
           /\ cache' = cache
           /\ ai_model' = ai_model
           /\ HF_AVAILABLE' = HF_AVAILABLE]_vars

C10_Witness ==
    /\ IsAI /\ pc = "tab2" /\ Called
    /\ session_data.present
    /\ last.gen_calls = 1 /\ last_outcome.kind = "generate_raises"

\* the file in the uploader parses to a table without rows
HoldsEmptyCsv == uploaded_file.present /\ uploaded_file.valid /\ uploaded_file.rows = 0
\* the file in the uploader cannot be read: pd.read_csv raises
HoldsUnreadable == uploaded_file.present /\ ~uploaded_file.valid

\* C11: in AI_app.py a CSV that parses to zero rows is rejected: once the
\* upload tab has run, the "file appears to be empty" error is shown, no
\* success message of the upload is, and the stored data is not the empty
\* table.
C11_EmptyCsvRejected ==
    (IsAI /\ pc = "tab3" /\ HoldsEmptyCsv) =>
        /\ "error_file_empty" \in page
        /\ "success_file_processed" \notin page
        /\ session_data # UploadedTable(uploaded_file)

\* C12: in AI_app.py the run in which Generate Sample Data is clicked stores
\* the 20-record sample table, and while the stored table is the sample no
\* step replaces it, except in a run that the user started by putting a
\* different file into the uploader: a file that was already held does not
\* overwrite the sample.
C12_SampleStays ==
    [][IsAI =>
        /\ (pc = "tab2" /\ clicked = "sample") => session_data' = SampleTable
        /\ (session_data = SampleTable /\ ~new_file /\ ~new_file')
              => session_data' = SampleTable]_vars

\* C13: in every render of AI_app.py the data status of the sidebar agrees
\* with the table the Charts tab used in that render: the same record count,
\* and "No data loaded" exactly when the Charts tab had no data.
C13_SidebarMatchesCharts ==
    (IsAI /\ pc = "idle" /\ chart_status.shown) =>
        /\ sidebar_status.shown
        /\ sidebar_status.present = chart_status.present
        /\ sidebar_status.rows = chart_status.rows

====
